---- MODULE Spec2Model ----
(***************************************************************************)
(* aws-utils: the retry / pagination / fallback core of DynamoTools,       *)
(* S3Tools and SecretManagerTools.                                         *)
(*                                                                         *)
(* One client is constructed (Init), one adapter call is made on it (the   *)
(* Call* actions) and every further step is the completion callback of the *)
(* backend request that is outstanding (the *Respond actions) or the timer *)
(* callback of the retry loop (RetryTimer): the backend answers with an    *)
(* error or with data and the callback runs to the point where it issues   *)
(* the next request, settles the call, or leaves the next attempt to the   *)
(* timer that utils.retry arms between two attempts of its loop.           *)
(*                                                                         *)
(* Encodings.  A cursor (LastEvaluatedKey / ExclusiveStartKey) is a        *)
(* DynamoDB key object; it is modelled as a positive integer and NoKey (0) *)
(* stands for null/undefined, so that JavaScript truthiness of a cursor is *)
(* "# NoKey".  NoLimit (-1) stands for limit = null.  The retryable flag   *)
(* of a backend error is "true", "false" or "absent".  The backend client  *)
(* methods are taken to be independent of their receiver, as the clients   *)
(* of the test-suite are (_execute passes cli[cliFunc] unbound).           *)
(***************************************************************************)
EXTENDS Integers, Sequences, FiniteSets, TLC

\* ---------------------------------------------------------------- bounds
MaxPages == 1          \* pages carrying a next-page cursor served per call
MaxPageItems == 2      \* items in one backend page
MaxLimit == 2          \* largest ceiling a caller passes
MaxConcLimit == 1      \* largest ceiling passed when two calls run side by side
MaxFailures == 12      \* requests of one call that the backend fails
MaxOptRetry == 1       \* largest opt.retryMax given at construction
MaxTablePages == 2     \* items of a table of the backend of the test-suite
MaxConds == 2          \* conditions in customParams.conditions of a query
MaxKeys == 2           \* keys in params.set / params.add of an updateItem

\* ------------------------------------------------------- program constants
DefaultRetryMax == 5       \* opt.retryMax || 5
UtilsRetryDefault == 3     \* utils.retry(fn, args, cb, retriesMax = 3, ...)

NoKey == 0
NoLimit == -1
UserKey == MaxPages + 1    \* a caller-supplied exclusiveStartKey

PagedOps == {"queryHashKey", "scan"}
SingleOps == {"putItem", "getItem", "getItems", "updateItem",
              "getObject", "putJsonObject", "getSecretValue"}
DynamoOps == PagedOps \cup {"query", "putItem", "getItem", "getItems", "updateItem"}

\* The n items of the k-th page of a call: item j is k + j - 1, so that a
\* page is ordered and the last item of a page is repeated by the next page
PageItems(k, n) == [j \in 1..n |-> k + j - 1]
DataVals == 1..2
Flags == {"true", "false", "absent"}

VARIABLES
    cliKind,        \* constructor name of this.cli
    retryMax,       \* this.retryMax (0: the field is never set)
    op,             \* adapter called ("none" before the call)
    args,           \* shape of the arguments the adapter was called with
    impl,           \* which DynamoTools the call is made on
    limit,          \* limit argument of queryHashKey / scan
    startKey,       \* exclusiveStartKey argument of queryHashKey / scan
    stack,          \* _promiseFunction / adapter activations awaiting a result
    params,         \* the params object shared by all activations of a call
    results,        \* the results / response accumulator object
    pending,        \* the backend request that is outstanding
    status,         \* idle, pending, resolved, rejected, hung
    error,          \* error the caller's promise was rejected with
    value,          \* value a single-shot adapter resolved with
    invocations,    \* requests sent to this.cli
    fbInvocations,  \* requests sent to this.cliFallback
    timer,          \* client that the armed timer of utils.retry will call
    sent,           \* the last request that the call sent to a client
    fbRuns,         \* per cursor, calls of utils.retry on this.cliFallback
    retries,        \* requests sent by the loop of utils.retry
    pages,          \* pages the backend answered with, in fetch order
    lastData,       \* last data payload answered to a single-shot adapter
    nFail,          \* backend answers that were errors
    allFlagged,     \* every error answered so far had retryable = true
    lastOutcome,    \* kind of the latest backend answer of the call
    calls,          \* two queryHashKey / scan calls in progress on one instance
    heap,           \* the params and results objects those calls work on
    nbRetry,        \* the counter of the backend that answers those calls
    built           \* arguments given to / request built by query and updateItem

callVars == <<cliKind, retryMax, op, args, impl, limit, startKey, stack, params, results,
          pending, timer, sent, status, error, value, invocations, fbInvocations, fbRuns, retries,
          pages,
          lastData, nFail, allFlagged, lastOutcome>>
vars == <<callVars, calls, heap, nbRetry, built>>

\* ----------------------------------------------------------------- values
NoErr == [kind |-> "none", seq |-> 0, cli |-> "none", flag |-> "absent", ctx |-> "none"]
NoReq == [cli |-> "none", ExclusiveStartKey |-> NoKey, Limit |-> NoLimit]
NoValue == [kind |-> "none", v |-> 0]
NoTimer == "none"
NoBuild == [kind |-> "none"]
NoData == [v |-> 0, wellFormed |-> FALSE, shape |-> "none"]
EmptyParams == [ExclusiveStartKey |-> NoKey, Limit |-> NoLimit]
EmptyResults == [Items |-> <<>>, LastEvaluatedKey |-> NoKey]

Frame(cli, esk) == [cli |-> cli, phase |-> "first", i |-> 0, err |-> NoErr, esk |-> esk]
\* an activation whose attempt has returned data waits in _collectData for
\* the next page: the loop of utils.retry is over, its counter is gone
Suspend(f) == [f EXCEPT !.i = 0]
Top(stk) == stk[Len(stk)]
Below(stk) == SubSeq(stk, 1, Len(stk) - 1)
Request(cli, prm) ==
    [cli |-> cli, ExclusiveStartKey |-> prm.ExclusiveStartKey, Limit |-> prm.Limit]

\* Items of a page: data.Items, the empty sequence when the field is missing
RECURSIVE Concat(_)
Concat(ps) == IF ps = <<>> THEN <<>> ELSE Concat(Below(ps)) \o Top(ps).Items
Fetched == Concat(pages)
CursorsServed == Cardinality({k \in 1..Len(pages) : pages[k].LastEvaluatedKey # NoKey})

\* ----------------------------------------------------------- constructors
\* DynamoTools / S3Tools: this.retryMax = opt.retryMax || 5
ConstructRetryMax(optRetryMax) == IF optRetryMax # 0 THEN optRetryMax ELSE DefaultRetryMax

\* retriesMax of utils.retry when the adapter passes rmax (0: undefined)
Budget(rmax) == IF rmax # 0 THEN rmax ELSE UtilsRetryDefault

\* ------------------------------------------------------ retry classifiers
IsRetryable_Never(err) == FALSE
IsRetryable_UnlessFalse(err) == err.flag # "false"
\* if (err.retryable)
IsRetryable(err) == err.flag = "true"

\* the loop of utils.retry (async-await-retry): attempt i (from 0) failed;
\* the error is thrown when the attempts are used up or the error owns a
\* retryable property that is false, otherwise the loop goes on
RetryThrows(i, retriesMax, err) ==
    retriesMax = i + 1 \/ (err.flag # "absent" /\ err.flag # "true")

\* --------------------------------------------------- queryHashKey / scan
BuildParams_LimitOnFirstPage(prm, lim, esk) ==
    [ExclusiveStartKey |-> IF esk # NoKey THEN esk ELSE prm.ExclusiveStartKey,
     Limit |-> IF lim # NoLimit /\ lim # 0 /\ prm.ExclusiveStartKey = NoKey
               THEN lim ELSE NoLimit]
\* _promiseFunction, building of params: params.Limit and
\* params.ExclusiveStartKey are written only when given
BuildParams(prm, lim, esk) ==
    [ExclusiveStartKey |-> IF esk # NoKey THEN esk ELSE prm.ExclusiveStartKey,
     Limit |-> IF lim # NoLimit /\ lim # 0 THEN lim ELSE prm.Limit]

CollectItems_UpToLimit(res, data, lim) ==
    IF data.hasItems /\ Len(data.Items) > 0
    THEN LET all == res.Items \o data.Items
         IN  [Items |-> IF lim # NoLimit /\ Len(all) > lim THEN SubSeq(all, 1, lim) ELSE all,
              LastEvaluatedKey |-> data.LastEvaluatedKey]
    ELSE res
CollectItems_Concat(res, data, lim) ==
    [Items |-> res.Items \o (IF data.hasItems THEN data.Items ELSE <<0>>),
     LastEvaluatedKey |-> data.LastEvaluatedKey]
\* _collectData, first half: push every item of the page
CollectItems(res, data, lim) ==
    IF data.hasItems /\ Len(data.Items) > 0
    THEN [Items |-> res.Items \o data.Items,
          LastEvaluatedKey |-> data.LastEvaluatedKey]
    ELSE res

\* the older DynamoTools accumulates into a plain array, which has no
\* LastEvaluatedKey
Collected(im, res, data, lim) ==
    IF im = "legacy"
    THEN [CollectItems(res, data, lim) EXCEPT !.LastEvaluatedKey = NoKey]
    ELSE CollectItems(res, data, lim)

NeedsNextPage_IgnoresLimit(data, lim, res) == data.LastEvaluatedKey # NoKey
\* _collectData, second half: the pagination test
NeedsNextPage(data, lim, res) ==
    data.LastEvaluatedKey # NoKey /\ (lim = NoLimit \/ lim > Len(res.Items))

\* finalErr.moreInfos = errObj
Reject(err) == [err EXCEPT !.ctx = "errObj"]

IsDax_NoFallback(f) == FALSE
\* AWSCli.constructor.name === 'AmazonDaxClient'; the fallback client is a
\* DocumentClient
IsDax(f) == f.cli = "primary" /\ cliKind = "AmazonDaxClient"

FallbackError_SurfacesFallback(f, errDynamo) == [errDynamo EXCEPT !.ctx = "errObj"]
\* catch (errDynamo) { err.moreInfos = errDynamo } finalErr = err;
\* finalErr.moreInfos = errObj: the error the activation f rejects with
\* when its fallback has failed with errDynamo is the one its first catch
\* caught, and the context blob replaces the error of the fallback
FallbackError(f, errDynamo) == [[f.err EXCEPT !.ctx = "errDynamo"] EXCEPT !.ctx = "errObj"]
ReqCli_ThisCli(f) == f.cli
ReqCli(f) == IF f.phase = "fallback" THEN "fallback" ELSE f.cli

\* --------------------------------------------------------- implementations
\* the repository holds two DynamoTools: the limit-aware one and an older
\* one ("legacy", src/src/DynamoTools.js) whose queryHashKey and scan take
\* no limit
Implementations(o, lim) ==
    IF o \in PagedOps /\ lim = NoLimit THEN {"limitAware", "legacy"} ELSE {"limitAware"}
\* the exclusiveStartKey that queryHashKey / scan hands to _promiseFunction:
\* the older queryHashKey writes "exclusiveStartKey = null" in the argument
\* list of the call, an assignment that replaces what the caller gave
PassedStartKey(im, o, esk) == IF im = "legacy" /\ o = "queryHashKey" THEN NoKey ELSE esk

\* ------------------------------------------------------------- validation
\* shapes of the arguments of a call: all well typed ("okParams": and with
\* an empty params object of the caller's in the place of the default
\* one), one of them failing the typeof test of the adapter ("bad",
\* "noTable", ...), or the object argument null or missing ("nullArg"),
\* which passes a typeof ... !== 'object' test where there is one
ArgShapes(o) ==
    CASE o = "queryHashKey" -> {"ok", "okParams", "noTable", "noKeyName", "noKeyValue"}
      [] o = "scan" -> {"ok", "okParams"}
      [] o = "deleteItem" -> {"ok"}
      [] o \in {"query", "updateItem", "putItem", "getItem"} -> {"ok", "bad", "nullArg"}
      [] OTHER -> {"ok", "bad"}
\* the typeof tests that open every adapter; _promiseFunction tests the
\* arguments of queryHashKey only, scan and deleteItem have no test.  A
\* null item / key passes the test of putItem and getItem and is sent to
\* the backend; query and updateItem read a property of their null
\* argument and throw.  TRUE: the adapter goes on to send its request.
ArgsValid(o, a) ==
    \/ o \in {"scan", "deleteItem"}
    \/ a \in {"ok", "okParams"}
    \/ a = "nullArg" /\ o \in {"putItem", "getItem"}
\* the error a failed test rejects with and the field its context is put in
ParamError(o) ==
    [kind |-> CASE o = "getObject" -> "S3_TOOLS_BAD_PARAM_GetObject"
                [] o = "putJsonObject" -> "S3_TOOLS_BAD_PARAM_PutObject"
                [] o = "getSecretValue" -> "Bad params"
                [] OTHER -> "BAD_PARAM",
     seq |-> 0, cli |-> "none", flag |-> "absent",
     ctx |-> CASE o = "queryHashKey" -> "more_infos_queryHashKey"
               [] o = "updateItem" -> "more_infos_updateItem"
               [] o \in {"query", "putItem", "getItem", "getItems"} -> "moreInfo"
               [] OTHER -> "none"]
\* what a call that sends nothing is rejected with: the error of the failed
\* test, or the TypeError thrown inside the promise executor by
\* customParams.conditions (query) and params.key (updateItem), which
\* carries no context
ArgError(o, a) ==
    IF a = "nullArg" THEN [NoErr EXCEPT !.kind = "TypeError"] ELSE ParamError(o)
ParamErrors ==
    {"BAD_PARAM", "S3_TOOLS_BAD_PARAM_GetObject", "S3_TOOLS_BAD_PARAM_PutObject", "Bad params"}

FirstRequest_BeforeValidation(ok, req) == req
\* "return reject(myErr)" comes before the call of the backend method
FirstRequest(ok, req) == IF ok THEN req ELSE NoReq

Out(stk, req, st, err) ==
    [stack |-> stk, pending |-> req, status |-> st, error |-> err, logs |-> 0,
     timer |-> NoTimer]
\* an attempt of the loop of utils.retry failed and the loop goes on: the
\* callback returns with nothing sent, a timer is armed whose callback
\* will make the next attempt on client cli
Wait(stk, cli) ==
    [stack |-> stk, pending |-> NoReq, status |-> "pending", error |-> NoErr, logs |-> 0,
     timer |-> cli]
SentNow_EveryAttempt(f, req) == req
\* utils.retry makes attempt 0 when it is called and every later attempt
\* from its timer: what the answer to an attempt of activation f sends at
\* once, and the timer it arms, when the call goes on with request req
SentNow(f, req) == IF f.phase = "first" THEN req ELSE NoReq
Armed(f, req) == IF f.phase = "first" THEN NoTimer ELSE req.cli

LogError_Unguarded(lg, o) ==
    IF lg THEN [o EXCEPT !.logs = @ + 1] ELSE [o EXCEPT !.pending = NoReq, !.status = "hung"]
\* if (logger) { logger.error(err) }, before what the activation does next
\* (o); lg tells whether opt.logger was given to the constructor
LogError(lg, o) == IF lg THEN [o EXCEPT !.logs = @ + 1] ELSE o

ActivationParams_OwnObject(f, prm) == [prm EXCEPT !.ExclusiveStartKey = f.esk]
\* the params that activation f sends: the one object handed from activation
\* to activation, or, in the older DynamoTools, the object that f built for
\* itself ("const params = {...}"), which holds the cursor f was called with
ActivationParams(f, prm) ==
    IF impl = "legacy" THEN [prm EXCEPT !.ExclusiveStartKey = f.esk] ELSE prm

RECURSIVE Unwind(_, _, _, _)
RECURSIVE Catch(_, _, _, _)
\* catch (err) of _promiseFunction around the first _execute: f is the
\* activation that catches, stk the stack with f on top
Catch(stk, err, prm, lg) ==
    LET f == Top(stk)
    IN  IF IsDax(f)
        THEN LogError(lg,
                 Out(Append(Below(stk), [f EXCEPT !.phase = "fallback", !.i = 0, !.err = err]),
                     Request("fallback", ActivationParams(f, prm)), "pending", NoErr))
        ELSE Unwind(Below(stk), Reject(err), prm, lg)
\* The promise of an activation was rejected with err; stk holds the
\* activations that await it, innermost last.  An activation waiting in
\* _collectData after its first attempt succeeded has no handler: the
\* rejection is lost and the promises below are never settled.
Unwind(stk, err, prm, lg) ==
    IF stk = <<>>
    THEN Out(<<>>, NoReq, "rejected", err)
    ELSE LET f == Top(stk)
         IN  CASE f.phase = "first" -> Out(stk, NoReq, "hung", NoErr)
               [] f.phase = "retry" -> Catch(stk, err, prm, lg)
               [] f.phase = "fallback" -> Unwind(Below(stk), FallbackError(f, err), prm, lg)

\* callback / retry loop of the innermost activation on an error answer
PagedOnError(stk, err, prm, rmax, lg) ==
    LET f == Top(stk)
    IN  CASE f.phase = "first" ->
                IF IsRetryable(err)
                THEN Out(Append(Below(stk), [f EXCEPT !.phase = "retry", !.i = 0]),
                         Request(f.cli, ActivationParams(f, prm)), "pending", NoErr)
                ELSE Unwind(Below(stk), Reject(err), prm, lg)
          [] f.phase = "retry" ->
                IF RetryThrows(f.i, Budget(rmax), err)
                THEN Catch(stk, err, prm, lg)
                ELSE Wait(Append(Below(stk), [f EXCEPT !.i = f.i + 1]), f.cli)
          [] f.phase = "fallback" ->
                IF RetryThrows(f.i, Budget(rmax), err)
                THEN Unwind(Below(stk), FallbackError(f, err), prm, lg)
                ELSE Wait(Append(Below(stk), [f EXCEPT !.i = f.i + 1]), "fallback")

PagedOnData_ResolvesBeforeNextPage(stk, prm, res0, data, lim, im) ==
    LET res == Collected(im, res0, data, lim)
        f == Top(stk)
    IN  IF NeedsNextPage(data, lim, res)
        THEN LET next == BuildParams(prm, lim, data.LastEvaluatedKey)
             IN  [results |-> res, params |-> next,
                  stack |-> Append(Append(Below(stk), Suspend(f)),
                                   Frame(ReqCli(f), data.LastEvaluatedKey)),
                  pending |-> Request(ReqCli(f), next), status |-> "resolved"]
        ELSE [results |-> res, params |-> prm, stack |-> <<>>,
              pending |-> NoReq, status |-> "resolved"]
\* _collectData on the data of the innermost activation: collect, then
\* either call _promiseFunction for the next page with the same params and
\* results objects, or return, which resolves every activation of the call
PagedOnData(stk, prm, res0, data, lim, im) ==
    LET res == Collected(im, res0, data, lim)
        f == Top(stk)
    IN  IF NeedsNextPage(data, lim, res)
        THEN LET next == BuildParams(prm, lim, data.LastEvaluatedKey)
             IN  [results |-> res, params |-> next,
                  stack |-> Append(Append(Below(stk), Suspend(f)),
                                   Frame(ReqCli(f), data.LastEvaluatedKey)),
                  pending |-> Request(ReqCli(f), next), status |-> "pending"]
        ELSE [results |-> res, params |-> prm, stack |-> <<>>,
              pending |-> NoReq, status |-> "resolved"]

\* ------------------------------------------------------------- the backend
\* the error answers to the outstanding request; the backend fails at most
\* MaxFailures requests of one call
ErrorAnswers ==
    IF nFail < MaxFailures
    THEN {[kind |-> "backend", seq |-> invocations + fbInvocations, cli |-> pending.cli,
           flag |-> fl, ctx |-> "none"] : fl \in Flags}
    ELSE {}
PageAnswers ==
    {[hasItems |-> TRUE, Items |-> PageItems(Len(pages) + 1, n), LastEvaluatedKey |-> k] :
        n \in 0..MaxPageItems,
        k \in {NoKey} \cup (IF CursorsServed < MaxPages THEN {CursorsServed + 1} ELSE {})}
    \cup
    {[hasItems |-> FALSE, Items |-> <<>>, LastEvaluatedKey |-> k] :
        k \in {NoKey} \cup (IF CursorsServed < MaxPages THEN {CursorsServed + 1} ELSE {})}
\* a data answer carries a payload v in the place its adapter reads
\* (shape "ok"), or has that place missing, present without the entry of
\* the request, or holding a value of the wrong type
Malformed == {"missing", "partial", "wrongType"}
DataAnswers ==
    [v : DataVals, wellFormed : {TRUE}, shape : {"ok"}]
    \cup [v : {1}, wellFormed : {FALSE}, shape : Malformed]
\* a batchGet answer may also be no object at all (null, undefined), or an
\* object whose own Responses is null or undefined: hasOwnProperty.call
\* throws a TypeError on either
Unreadable == {"noObject", "nullResponses"}
\* the data answers to a request of adapter o
DataAnswersTo(o) ==
    DataAnswers \cup (IF o = "getItems"
                      THEN [v : {1}, wellFormed : {FALSE}, shape : Unreadable]
                      ELSE {})

\* the request req that follows an answer is attempt 0 of a loop of
\* utils.retry on the fallback client: _execute was called with cliFallback
\* and the cursor that params holds
FallbackRuns(runs, stk, req, wasError) ==
    IF wasError /\ req.cli = "fallback" /\ Top(stk).i = 0
    THEN [runs EXCEPT ![req.ExclusiveStartKey] = @ + 1]
    ELSE runs

\* a page as the backend served it: the data, with the cursor and the
\* client of the request that it answers
Served(data, req) ==
    [hasItems |-> data.hasItems, Items |-> data.Items,
     LastEvaluatedKey |-> data.LastEvaluatedKey,
     cursor |-> req.ExclusiveStartKey, cli |-> req.cli]

\* the last request sent, after a step that leaves req outstanding
Sent(was, req) == IF req # NoReq THEN req ELSE was

\* the request req is one more call of a method of client c
Count(req, c) == IF req.cli = c THEN 1 ELSE 0

ObserveError(err) ==
    /\ nFail' = nFail + 1
    /\ allFlagged' = (allFlagged /\ err.flag = "true")
    /\ lastOutcome' = err.flag
ObserveData ==
    /\ nFail' = nFail
    /\ allFlagged' = allFlagged
    /\ lastOutcome' = "data"

\* ------------------------------------------- two calls on one instance
Callers == 1..2
Tables == {"myTable", "myTableWithPagination"}
NoTable == "none"
\* LastEvaluatedKey = {}
MockKey == 1
\* The backend of the test-suite: the mocks of DocumentClient.query and
\* DocumentClient.scan.  Neither reads the cursor of the request.
\* The mock of query reads params.TableName: 'myTable' is one page of all
\* the items and no cursor; 'myTableWithPagination' is answered by the
\* counter nbRetry, which all calls share: while the counter is below the
\* last page, the next item and the cursor {}, and the counter goes up;
\* from then on the last item and no cursor (with two items, as in the
\* test-suite: item 1 and the cursor while the counter is 0, item 2 and
\* no cursor afterwards).  QueryMock is the page and QueryMockCount the
\* counter after it, for a request on table t when the counter is nb.
QueryMock(t, nb) ==
    CASE t = "myTable" ->
            [hasItems |-> TRUE, Items |-> [k \in 1..MaxTablePages |-> k],
             LastEvaluatedKey |-> NoKey]
      [] t = "myTableWithPagination" /\ nb < MaxTablePages - 1 ->
            [hasItems |-> TRUE, Items |-> <<nb + 1>>, LastEvaluatedKey |-> MockKey]
      [] OTHER ->
            [hasItems |-> TRUE, Items |-> <<MaxTablePages>>, LastEvaluatedKey |-> NoKey]
QueryMockCount(t, nb) ==
    IF t = "myTableWithPagination" /\ nb < MaxTablePages - 1 THEN nb + 1 ELSE nb
\* The mock of scan reads params.Limit and nothing else: without it one
\* page of all the items and no cursor; with it the same page less its
\* last item, and the cursor {}.
ScanMock(req) ==
    IF req.Limit = NoLimit
    THEN [hasItems |-> TRUE, Items |-> [k \in 1..MaxTablePages |-> k],
          LastEvaluatedKey |-> NoKey]
    ELSE [hasItems |-> TRUE, Items |-> [k \in 1..MaxTablePages - 1 |-> k],
          LastEvaluatedKey |-> MockKey]
\* AWSCli[AWSMethod](params, ...): the answer of the mocked method of adapter o
\* to the request req on table t when the counter is nb, and the counter
\* after it
MockPage(o, t, req, nb) == IF o = "scan" THEN ScanMock(req) ELSE QueryMock(t, nb)
MockCount(o, t, nb) == IF o = "scan" THEN nb ELSE QueryMockCount(t, nb)
\* a params object and a results object as the default parameters
\* "params = {}" and "results = {Items: []}" make them
NewObject == [TableName |-> NoTable, prm |-> EmptyParams, res |-> EmptyResults]
IdleCall ==
    [status |-> "idle", op |-> "none", table |-> NoTable, limit |-> NoLimit, obj |-> 0,
     stack |-> <<>>, pending |-> NoReq, timer |-> NoTimer, reqTable |-> NoTable,
     error |-> NoErr, logged |-> 0, fetched |-> <<>>]

DefaultObject_Shared(c) == 1
\* default parameter expressions are evaluated at every call: call c works
\* on objects of its own
DefaultObject(c) == c

\* --------------------------------------------------------------- actions
\* new DynamoTools(cli, {retryMax: o}); o = 0: no opt.retryMax
Constructed ==
    /\ cliKind \in {"DocumentClient", "AmazonDaxClient"}
    /\ \E o \in 0..MaxOptRetry : retryMax = ConstructRetryMax(o)
    /\ op = "none"
    /\ args = "none"
    /\ impl = "none"
    /\ retries = 0
    /\ limit = NoLimit
    /\ startKey = NoKey
    /\ stack = <<>>
    /\ params = EmptyParams
    /\ results = EmptyResults
    /\ pending = NoReq
    /\ timer = NoTimer
    /\ sent = NoReq
    /\ status = "idle"
    /\ error = NoErr
    /\ value = NoValue
    /\ invocations = 0
    /\ fbInvocations = 0
    /\ fbRuns = [k \in NoKey..UserKey |-> 0]
    /\ pages = <<>>
    /\ lastData = NoData
    /\ nFail = 0
    /\ allFlagged = TRUE
    /\ lastOutcome = "none"
    /\ calls = [c \in Callers |-> IdleCall]
    /\ heap = [id \in Callers |-> NewObject]
    /\ nbRetry = 0
Init == Constructed /\ built = NoBuild

\* The calls below are made on an instance constructed without opt.logger.
\* queryHashKey(table, name, value, exclusiveStartKey, limit) and
\* scan(table, name, value, exclusiveStartKey, limit), or the same with a
\* params object of the caller's as sixth argument, which only the
\* limit-aware DynamoTools takes; a call with arguments that fail the test
\* is made with the default cursor and limit
CallPaged ==
    /\ UNCHANGED <<calls, heap, nbRetry, built>>
    /\ status = "idle"
    /\ \E o \in PagedOps, lim \in {NoLimit} \cup (0..MaxLimit), esk \in {NoKey, UserKey} :
       \E a \in ArgShapes(o), im \in Implementations(o, lim) :
        /\ a = "okParams" => im = "limitAware"
        /\ op' = o
        /\ args' = a
        /\ impl' = im
        /\ limit' = lim
        /\ startKey' = esk
        /\ IF ArgsValid(o, a)
           THEN /\ params' = BuildParams(EmptyParams, lim, PassedStartKey(im, o, esk))
                /\ stack' = <<Frame("primary", PassedStartKey(im, o, esk))>>
                /\ status' = "pending"
                /\ error' = error
           ELSE /\ lim = NoLimit
                /\ esk = NoKey
                /\ params' = EmptyParams
                /\ stack' = <<>>
                /\ status' = "rejected"
                /\ error' = ParamError(o)
        /\ pending' = FirstRequest(ArgsValid(o, a), Request("primary", params'))
    /\ results' = EmptyResults
    /\ invocations' = invocations + Count(pending', "primary")
    /\ sent' = Sent(sent, pending')
    /\ UNCHANGED <<cliKind, retryMax, timer, value, fbInvocations, fbRuns, retries, pages, lastData,
                   nFail, allFlagged, lastOutcome>>

\* completion of AWSCli[AWSMethod](params, ...) or of an attempt of
\* utils.retry inside _execute
PagedRespond ==
    /\ UNCHANGED <<calls, heap, nbRetry, built>>
    /\ status = "pending"
    /\ op \in PagedOps
    /\ pending # NoReq
    /\ \/ \E err \in ErrorAnswers :
            LET o == PagedOnError(stack, err, params, retryMax, FALSE)
            IN  /\ stack' = o.stack
                /\ pending' = o.pending
                /\ timer' = o.timer
                /\ status' = o.status
                /\ error' = o.error
                /\ UNCHANGED <<params, results, pages>>
                /\ ObserveError(err)
       \/ \E data \in PageAnswers :
            LET o == PagedOnData(stack, params, results, data, limit, impl)
            IN  /\ results' = o.results
                /\ pages' = Append(pages, Served(data, pending))
                /\ ObserveData
                /\ params' = o.params
                /\ stack' = o.stack
                /\ pending' = o.pending
                /\ timer' = NoTimer
                /\ status' = o.status
                /\ error' = NoErr
    /\ invocations' = invocations + Count(pending', "primary")
    /\ sent' = Sent(sent, pending')
    /\ fbInvocations' = fbInvocations + Count(pending', "fallback")
    /\ fbRuns' = FallbackRuns(fbRuns, stack', pending', lastOutcome' # "data")
    /\ retries' = retries + (IF lastOutcome' # "data" /\ pending' # NoReq THEN 1 ELSE 0)
    /\ UNCHANGED <<cliKind, retryMax, op, args, impl, limit, startKey, value, lastData>>

\* ------------------------------------------------------------------ query
\* query(dynamoTable, customParams) with valid arguments.  Every activation
\* builds its own params; a recursive activation is returned from the
\* callback instead of being chained to the promise of the caller, which
\* is then never settled: frame.esk # NoKey marks such an activation.
CallQuery ==
    /\ UNCHANGED <<calls, heap, nbRetry, built>>
    /\ status = "idle"
    /\ op' = "query"
    /\ impl' = "limitAware"
    /\ \E a \in ArgShapes("query") :
        /\ args' = a
        /\ IF ArgsValid("query", a)
           THEN /\ stack' = <<Frame("primary", NoKey)>>
                /\ status' = "pending"
                /\ error' = error
           ELSE /\ stack' = <<>>
                /\ status' = "rejected"
                /\ error' = ArgError("query", a)
        /\ pending' = FirstRequest(ArgsValid("query", a), Request("primary", EmptyParams))
    /\ params' = EmptyParams
    /\ results' = EmptyResults
    /\ invocations' = invocations + Count(pending', "primary")
    /\ sent' = Sent(sent, pending')
    /\ UNCHANGED <<cliKind, retryMax, limit, startKey, timer, value, fbInvocations, fbRuns, retries,
                   pages, lastData, nFail, allFlagged, lastOutcome>>

\* what settling the promise of activation f does to the promise the
\* caller holds
QuerySettle(f, st) == IF f.esk = NoKey THEN st ELSE "hung"

\* if(!data.Items) return resolve(response); push the items;
\* if(data.LastEvaluatedKey) return this.query(...); return resolve(response)
QueryRecurses(data) == data.hasItems /\ data.LastEvaluatedKey # NoKey

\* completion of this.cli.query(params, ...) or of an attempt of utils.retry
QueryRespond ==
    /\ UNCHANGED <<calls, heap, nbRetry, built>>
    /\ status = "pending"
    /\ op = "query"
    /\ pending # NoReq
    /\ LET f == Top(stack)
       IN  \/ \E err \in ErrorAnswers :
                /\ ObserveError(err)
                /\ UNCHANGED <<params, results, pages>>
                /\ IF (f.phase = "first" /\ IsRetryable(err))
                      \/ (f.phase = "retry" /\ ~RetryThrows(f.i, Budget(retryMax), err))
                   THEN /\ stack' = <<[f EXCEPT !.phase = "retry",
                                                !.i = IF f.phase = "first" THEN 0 ELSE f.i + 1]>>
                        /\ pending' = SentNow(f, Request("primary", params))
                        /\ timer' = Armed(f, Request("primary", params))
                        /\ status' = "pending"
                        /\ error' = NoErr
                   ELSE /\ stack' = <<>>
                        /\ pending' = NoReq
                        /\ timer' = NoTimer
                        /\ status' = QuerySettle(f, "rejected")
                        /\ error' = IF f.esk = NoKey THEN [err EXCEPT !.ctx = "moreInfo"] ELSE NoErr
           \/ \E data \in PageAnswers :
                /\ ObserveData
                /\ pages' = Append(pages, Served(data, pending))
                /\ results' = [results EXCEPT !.Items = @ \o data.Items]
                /\ timer' = NoTimer
                /\ error' = NoErr
                /\ IF QueryRecurses(data)
                   THEN /\ stack' = <<Frame("primary", data.LastEvaluatedKey)>>
                        /\ params' = [EmptyParams EXCEPT !.ExclusiveStartKey = data.LastEvaluatedKey]
                        /\ pending' = Request("primary", params')
                        /\ status' = "pending"
                   ELSE /\ stack' = <<>>
                        /\ params' = params
                        /\ pending' = NoReq
                        /\ status' = QuerySettle(f, "resolved")
    /\ invocations' = invocations + Count(pending', "primary")
    /\ sent' = Sent(sent, pending')
    /\ retries' = retries + (IF lastOutcome' # "data" /\ pending' # NoReq THEN 1 ELSE 0)
    /\ UNCHANGED <<cliKind, retryMax, op, args, impl, limit, startKey, value, fbInvocations, fbRuns, lastData>>

\* ----------------------------------------------------- single-shot adapters
\* putItem, getItem, getItems, updateItem (DynamoTools), getObject with the
\* default returnType "object" and gzip false, putJsonObject (S3Tools) and
\* getSecretValue (SecretManagerTools), with valid arguments.  wellFormed
\* of a data answer: it has a Buffer Body (getObject), it has an array under
\* Responses[table] (getItems).  The constructor name of the client plays
\* no role for S3Tools and SecretManagerTools: their calls are taken with
\* the first kind of client only.
CallSingle ==
    /\ UNCHANGED <<calls, heap, nbRetry, built>>
    /\ status = "idle"
    /\ \E o \in SingleOps : \E a \in ArgShapes(o) :
        /\ o \in DynamoOps \/ cliKind = "DocumentClient"
        /\ op' = o
        /\ args' = a
        /\ impl' = "limitAware"
        /\ IF ArgsValid(o, a)
           THEN /\ stack' = <<Frame("primary", NoKey)>>
                /\ status' = "pending"
                /\ error' = error
           ELSE /\ stack' = <<>>
                /\ status' = "rejected"
                /\ error' = ArgError(o, a)
        /\ pending' = FirstRequest(ArgsValid(o, a), Request("primary", EmptyParams))
    /\ invocations' = invocations + Count(pending', "primary")
    /\ sent' = Sent(sent, pending')
    /\ UNCHANGED <<cliKind, retryMax, limit, startKey, params, results, timer, value,
                   fbInvocations, fbRuns, retries, pages, lastData, nFail, allFlagged, lastOutcome>>

\* the field an adapter hangs its context blob on
CtxField(o) ==
    CASE o \in {"putItem", "getItem", "getItems"} -> "moreInfo"
      [] o = "updateItem" -> "more_infos_updateItem"
      [] OTHER -> "none"

\* the error a single-shot adapter rejects with when the callback ends on
\* the error err.  In putItem the "catch (err)" around utils.retry declares
\* a name of its own and falls through to "return reject(err)" of the
\* callback, whose err is the error of the first attempt.
Rejected(o, f, err) == IF o = "putItem" /\ f.phase = "retry" THEN f.err ELSE err

\* this.retryMax as the adapter reads it: SecretManagerTools never sets it
ClientRetryMax(o, rmax) == IF o = "getSecretValue" THEN 0 ELSE rmax

\* _formatRes(data, dynamoTable): data.Responses[dynamoTable] when data has
\* its own Responses, Responses its own entry for the table and that entry
\* is an array; [] when data is an object without Responses, or Responses
\* an object without such an entry; a TypeError thrown by
\* Object.prototype.hasOwnProperty.call when data, or data.Responses, is
\* null or undefined
FormatRes(data) ==
    CASE data.shape \in Unreadable -> [kind |-> "TypeError", v |-> 0]
      [] data.shape \in Malformed -> [kind |-> "empty", v |-> 0]
      [] OTHER -> [kind |-> "data", v |-> data.v]

\* what the adapter does with a data answer: the settled status, the value
\* and the error.  phase is "first" for the callback, "retry" for the
\* continuation of utils.retry.  getItem resolves with data.Item, undefined
\* when the response has none.  getObject tests the Body in the callback
\* only; after a retry JSON.parse(data.Body.toString()) throws a TypeError
\* on a missing or null Body and a SyntaxError on a Body that is a string
\* of no JSON (shape "wrongType").  getItems resolves with what _formatRes
\* returns; when _formatRes throws, in the callback the exception leaves the
\* async function and nothing settles the promise of the call (status
\* stays "pending"), in the continuation of utils.retry the catch around it
\* rejects the call with the TypeError, errObj attached.
SingleOnData(o, phase, data) ==
    CASE o \in {"putItem", "updateItem"} ->
            [status |-> "resolved", value |-> [kind |-> "undefined", v |-> 0], error |-> NoErr]
      [] o = "getItem" ->
            [status |-> "resolved",
             value |-> IF data.shape = "missing" THEN [kind |-> "undefined", v |-> 0]
                                                 ELSE [kind |-> "data", v |-> data.v],
             error |-> NoErr]
      [] o = "getItems" ->
            CASE FormatRes(data).kind # "TypeError" ->
                    [status |-> "resolved", value |-> FormatRes(data), error |-> NoErr]
              [] phase = "first" ->
                    [status |-> "pending", value |-> NoValue, error |-> NoErr]
              [] OTHER ->
                    [status |-> "rejected", value |-> NoValue,
                     error |-> [NoErr EXCEPT !.kind = "TypeError", !.ctx = CtxField(o)]]
      [] o = "getObject" ->
            IF data.wellFormed
            THEN [status |-> "resolved", value |-> [kind |-> "data", v |-> data.v], error |-> NoErr]
            ELSE [status |-> "rejected", value |-> NoValue,
                  error |-> [NoErr EXCEPT !.kind =
                                CASE phase = "first" -> "FILE_NOT_FOUND"
                                  [] data.shape = "wrongType" -> "SyntaxError"
                                  [] OTHER -> "TypeError"]]
      [] OTHER ->
            [status |-> "resolved", value |-> [kind |-> "data", v |-> data.v], error |-> NoErr]

\* completion of this.cli.<method>(param, ...) or of an attempt of utils.retry
SingleRespond ==
    /\ UNCHANGED <<calls, heap, nbRetry, built>>
    /\ status = "pending"
    /\ op \in SingleOps
    /\ pending # NoReq
    /\ LET f == Top(stack)
           rmax == Budget(ClientRetryMax(op, retryMax))
       IN  \/ \E err \in ErrorAnswers :
                /\ ObserveError(err)
                /\ lastData' = lastData
                /\ value' = value
                /\ IF (f.phase = "first" /\ IsRetryable(err))
                      \/ (f.phase = "retry" /\ ~RetryThrows(f.i, rmax, err))
                   THEN /\ stack' = <<[f EXCEPT !.phase = "retry",
                                                !.i = IF f.phase = "first" THEN 0 ELSE f.i + 1,
                                                !.err = IF f.phase = "first" THEN err ELSE f.err]>>
                        /\ pending' = SentNow(f, Request("primary", EmptyParams))
                        /\ timer' = Armed(f, Request("primary", EmptyParams))
                        /\ status' = "pending"
                        /\ error' = NoErr
                   ELSE /\ stack' = <<>>
                        /\ pending' = NoReq
                        /\ timer' = NoTimer
                        /\ status' = "rejected"
                        /\ error' = [Rejected(op, f, err) EXCEPT !.ctx = CtxField(op)]
           \/ \E data \in DataAnswersTo(op) :
                LET o == SingleOnData(op, f.phase, data)
                IN  /\ ObserveData
                    /\ lastData' = data
                    /\ stack' = IF o.status = "pending" THEN stack ELSE <<>>
                    /\ pending' = NoReq
                    /\ timer' = NoTimer
                    /\ status' = o.status
                    /\ value' = o.value
                    /\ error' = o.error
    /\ invocations' = invocations + Count(pending', "primary")
    /\ sent' = Sent(sent, pending')
    /\ retries' = retries + (IF lastOutcome' # "data" /\ pending' # NoReq THEN 1 ELSE 0)
    /\ UNCHANGED <<cliKind, retryMax, op, args, impl, limit, startKey, params, results,
                   fbInvocations, fbRuns, pages>>

\* ------------------------------------------------------------- deleteItem
\* async deleteItem(table, key): builds params and awaits
\* this.cli.delete(params).promise()
CallDelete ==
    /\ UNCHANGED <<calls, heap, nbRetry, built>>
    /\ status = "idle"
    /\ op' = "deleteItem"
    /\ args' = "ok"
    /\ impl' = "limitAware"
    /\ stack' = <<Frame("primary", NoKey)>>
    /\ pending' = Request("primary", EmptyParams)
    /\ status' = "pending"
    /\ invocations' = invocations + 1
    /\ sent' = Sent(sent, pending')
    /\ UNCHANGED <<cliKind, retryMax, limit, startKey, params, results, timer, error, value,
                   fbInvocations, fbRuns, retries, pages, lastData, nFail, allFlagged, lastOutcome>>

\* the awaited promise is rejected: the promise of the async function is
\* rejected with the same error
DeleteOnError(err) == [status |-> "rejected", pending |-> NoReq, error |-> err]

\* settlement of this.cli.delete(params).promise()
DeleteRespond ==
    /\ UNCHANGED <<calls, heap, nbRetry, built>>
    /\ status = "pending"
    /\ op = "deleteItem"
    /\ pending # NoReq
    /\ \/ \E err \in ErrorAnswers :
            LET o == DeleteOnError(err)
            IN  /\ ObserveError(err)
                /\ status' = o.status
                /\ pending' = o.pending
                /\ error' = o.error
                /\ stack' = IF o.status = "pending" THEN stack ELSE <<>>
                /\ UNCHANGED <<value, lastData>>
       \/ \E data \in DataAnswers :
            /\ ObserveData
            /\ lastData' = data
            /\ status' = "resolved"
            /\ pending' = NoReq
            /\ error' = NoErr
            /\ stack' = <<>>
            /\ value' = [kind |-> "undefined", v |-> 0]
    /\ invocations' = invocations + Count(pending', "primary")
    /\ sent' = Sent(sent, pending')
    /\ retries' = retries + Count(pending', "primary")
    /\ UNCHANGED <<cliKind, retryMax, op, args, impl, limit, startKey, params, results,
                   timer, fbInvocations, fbRuns, pages>>

\* The timer of utils.retry fires (interval 200 ms, doubled per attempt):
\* its callback makes the next attempt of the loop.  The request is built
\* from the params object as it is when the timer fires.
RetryTimer ==
    /\ UNCHANGED <<calls, heap, nbRetry, built>>
    /\ status = "pending"
    /\ timer # NoTimer
    /\ pending' = Request(timer, ActivationParams(Top(stack), params))
    /\ timer' = NoTimer
    /\ invocations' = invocations + Count(pending', "primary")
    /\ sent' = Sent(sent, pending')
    /\ fbInvocations' = fbInvocations + Count(pending', "fallback")
    /\ retries' = retries + 1
    /\ UNCHANGED <<cliKind, retryMax, op, args, impl, limit, startKey, stack, params, results,
                   status, error, value, fbRuns, pages, lastData, nFail, allFlagged,
                   lastOutcome>>

\* ------------------------------------------- two calls on one instance
\* call c: queryHashKey(table, name, value, null, lim) or
\* scan(table, null, null, null, lim) on one of the tables of the backend
ConcCall(c) ==
    /\ calls[c].status = "idle"
    /\ \E o \in PagedOps, lim \in {NoLimit} \cup (0..MaxConcLimit), t \in Tables :
        LET id == DefaultObject(c)
            prm == BuildParams(heap[id].prm, lim, NoKey)
        IN  /\ heap' = [heap EXCEPT ![id] = [@ EXCEPT !.TableName = t, !.prm = prm]]
            /\ calls' = [calls EXCEPT ![c] =
                    [status |-> "pending", op |-> o, table |-> t, limit |-> lim, obj |-> id,
                     stack |-> <<Frame("primary", NoKey)>>,
                     pending |-> Request("primary", prm), timer |-> NoTimer, reqTable |-> t,
                     error |-> NoErr, logged |-> 0, fetched |-> <<>>]]
    /\ UNCHANGED <<callVars, nbRetry, built>>

\* the backend answers the request of call c: an error, or the page that
\* the mock of the method gives for the request
ConcRespond(c) ==
    LET me == calls[c]
        obj == heap[me.obj]
    IN  /\ me.status = "pending"
        /\ me.pending # NoReq
        /\ \/ \E fl \in Flags :
                LET err == [kind |-> "backend", seq |-> 0, cli |-> me.pending.cli,
                            flag |-> fl, ctx |-> "none"]
                    o == PagedOnError(me.stack, err, obj.prm, retryMax, FALSE)
                IN  /\ calls' = [calls EXCEPT ![c] =
                            [me EXCEPT !.stack = o.stack, !.pending = o.pending,
                                       !.timer = o.timer,
                                       !.status = o.status, !.error = o.error,
                                       !.reqTable = IF o.pending # NoReq THEN obj.TableName
                                                                         ELSE NoTable]]
                    /\ heap' = heap
                    /\ nbRetry' = nbRetry
           \/ LET data == MockPage(me.op, me.reqTable, me.pending, nbRetry)
                   o == PagedOnData(me.stack, obj.prm, obj.res, data, me.limit, "limitAware")
               IN  /\ calls' = [calls EXCEPT ![c] =
                            [me EXCEPT !.stack = o.stack, !.pending = o.pending,
                                       !.status = o.status, !.error = NoErr,
                                       !.fetched = @ \o data.Items,
                                       !.reqTable = IF o.pending # NoReq THEN obj.TableName
                                                                         ELSE NoTable]]
                   /\ heap' = [heap EXCEPT ![me.obj] = [@ EXCEPT !.prm = o.params,
                                                                 !.res = o.results]]
                   /\ nbRetry' = MockCount(me.op, me.reqTable, nbRetry)
        /\ UNCHANGED <<callVars, built>>

\* the timer of utils.retry of call c fires: the next attempt is made with
\* the params object of the call as it is then
ConcTimer(c) ==
    LET me == calls[c]
        obj == heap[me.obj]
    IN  /\ me.status = "pending"
        /\ me.timer # NoTimer
        /\ calls' = [calls EXCEPT ![c] =
                [me EXCEPT !.pending = Request(me.timer, obj.prm), !.timer = NoTimer,
                           !.reqTable = obj.TableName]]
        /\ UNCHANGED <<callVars, heap, nbRetry, built>>

ConcNext == \E c \in Callers : ConcCall(c) \/ ConcRespond(c) \/ ConcTimer(c)
ConcInit == Init
ConcSpec == ConcInit /\ [][ConcNext]_vars

\* ------------------------------------- the same call with and without logger
\* Caller 1 calls an instance constructed with opt.logger, caller 2 an
\* instance constructed without; both make the same call and the backend
\* gives both the same answers.
HasLogger(c) == c = 1
LogCall ==
    /\ \A c \in Callers : calls[c].status = "idle"
    /\ \E o \in PagedOps, lim \in {NoLimit} \cup (0..MaxLimit), esk \in {NoKey, 1},
          t \in Tables :
        LET prm == BuildParams(EmptyParams, lim, esk)
        IN  /\ heap' = [c \in Callers |-> [heap[c] EXCEPT !.TableName = t, !.prm = prm]]
            /\ calls' = [c \in Callers |->
                    [status |-> "pending", op |-> o, table |-> t, limit |-> lim,
                     obj |-> DefaultObject(c), stack |-> <<Frame("primary", esk)>>,
                     pending |-> Request("primary", prm), timer |-> NoTimer, reqTable |-> t,
                     error |-> NoErr, logged |-> 0, fetched |-> <<>>]]
    /\ UNCHANGED <<callVars, nbRetry, built>>

\* what an error answer does to the call of caller c
LogOnError(c, fl) ==
    LET me == calls[c]
        err == [kind |-> "backend", seq |-> 0, cli |-> me.pending.cli,
                flag |-> fl, ctx |-> "none"]
        o == PagedOnError(me.stack, err, heap[me.obj].prm, retryMax, HasLogger(c))
    IN  [me EXCEPT !.stack = o.stack, !.pending = o.pending, !.timer = o.timer,
                   !.status = o.status, !.error = o.error, !.logged = @ + o.logs]
\* what the page data does to the call of caller c and its objects
LogOnData(c, data) ==
    LET me == calls[c]
    IN  PagedOnData(me.stack, heap[me.obj].prm, heap[me.obj].res, data, me.limit, "limitAware")

LogRespond ==
    /\ \A c \in Callers : calls[c].status = "pending" /\ calls[c].pending # NoReq
    /\ \/ \E fl \in Flags :
            /\ calls' = [c \in Callers |-> LogOnError(c, fl)]
            /\ heap' = heap
            /\ nbRetry' = nbRetry
       \/ LET data == MockPage(calls[1].op, calls[1].reqTable, calls[1].pending, nbRetry)
          IN
            /\ nbRetry' = MockCount(calls[1].op, calls[1].reqTable, nbRetry)
            /\ calls' = [c \in Callers |->
                    [calls[c] EXCEPT !.stack = LogOnData(c, data).stack,
                                     !.pending = LogOnData(c, data).pending,
                                     !.status = LogOnData(c, data).status,
                                     !.error = NoErr,
                                     !.fetched = @ \o data.Items]]
            /\ heap' = [c \in Callers |->
                    [heap[c] EXCEPT !.prm = LogOnData(c, data).params,
                                    !.res = LogOnData(c, data).results]]
    /\ UNCHANGED <<callVars, built>>

\* the timers of utils.retry of both calls fire
LogTimer ==
    /\ \A c \in Callers : calls[c].status = "pending" /\ calls[c].timer # NoTimer
    /\ calls' = [c \in Callers |->
            [calls[c] EXCEPT !.pending = Request(calls[c].timer, heap[calls[c].obj].prm),
                             !.timer = NoTimer]]
    /\ UNCHANGED <<callVars, heap, nbRetry, built>>

LogNext == LogCall \/ LogRespond \/ LogTimer
LoggerSpec == Init /\ [][LogNext]_vars

\* ------------------------------------------- request building: query
\* obj[k] = v on an object obj: a binding of k is replaced, any other kept
Assign(obj, k, v) == [x \in DOMAIN obj \cup {k} |-> IF x = k THEN v ELSE obj[x]]
EmptyObject == [x \in {} |-> 0]

\* customParams.conditions: {key, operator, value} triples; value is a
\* scalar or an array of two bounds
CondKeys == {"pk", "sk"}
Operators == {"=", "BETWEEN"}
CondValues ==
    {[isArray |-> FALSE, v |-> <<x>>] : x \in 1..2}
    \cup {[isArray |-> TRUE, v |-> <<1, 2>>], [isArray |-> TRUE, v |-> <<3, 4>>]}
Conditions == [key : CondKeys, operator : Operators, value : CondValues]
ConditionLists == UNION {[1..n -> Conditions] : n \in 0..MaxConds}

\* placeholders and words of the expression, one token each
NamePlaceholder(index) == <<"#i_", index>>
\* `:i_${index}`
ValuePlaceholder(index) == <<":i_", index>>
\* ':b1 AND :b2'
RangePlaceholders(index) == << <<":b", 1>>, <<":b", 2>> >>

RECURSIVE QueryExpression(_, _)
\* the loop of query over customParams.conditions.entries(), after its
\* first n rounds (index = 0 .. n - 1)
QueryExpression(conds, n) ==
    IF n = 0
    THEN [keyCondition |-> <<>>, keyAttribute |-> EmptyObject, keyName |-> EmptyObject]
    ELSE LET acc == QueryExpression(conds, n - 1)
             index == n - 1
             condition == conds[n]
             sep == IF acc.keyCondition # <<>> THEN << <<"and", 0>> >> ELSE <<>>
             lhs == <<NamePlaceholder(index), <<"op", condition.operator>> >>
             b == RangePlaceholders(index)
         IN  IF condition.value.isArray
             THEN [keyCondition |-> acc.keyCondition \o sep \o lhs
                                        \o <<b[1], <<"AND", 0>>, b[2]>>,
                   keyAttribute |-> Assign(Assign(acc.keyAttribute, b[1], condition.value.v[1]),
                                           b[2], condition.value.v[2]),
                   keyName |-> Assign(acc.keyName, NamePlaceholder(index), condition.key)]
             ELSE [keyCondition |-> acc.keyCondition \o sep \o lhs
                                        \o <<ValuePlaceholder(index)>>,
                   keyAttribute |-> Assign(acc.keyAttribute, ValuePlaceholder(index),
                                           condition.value.v[1]),
                   keyName |-> Assign(acc.keyName, NamePlaceholder(index), condition.key)]

\* query builds its request from customParams.conditions
BuildQuery ==
    /\ built.kind = "queryArgs"
    /\ built' = [kind |-> "query", conditions |-> built.conditions,
                 params |-> QueryExpression(built.conditions, Len(built.conditions))]
    /\ UNCHANGED <<callVars, calls, heap, nbRetry>>

\* --------------------------------------- request building: updateItem
\* strings are sequences of characters, so that indexOf can be computed
SetWord == <<"s", "e", "t">>
AddWord == <<"a", "d", "d">>
UpdateKeys == {<<"n">>, <<"q", "t">>, <<"a", "d", "d", "r">>}
SetValue == 1
AddValue == 2
\* the keys of params.set / params.add in enumeration order; a map that
\* is absent is enumerated like an empty one
KeyLists ==
    {ks \in UNION {[1..n -> UpdateKeys] : n \in 0..MaxKeys} :
        \A i, j \in 1..Len(ks) : i # j => ks[i] # ks[j]}
Maps == [present : {TRUE}, keys : KeyLists] \cup [present : {FALSE}, keys : {<<>>}]

\* str.indexOf(sub): 0-based position of the first occurrence, or -1
IndexOf(str, sub) ==
    LET at == {i \in 1..(Len(str) - Len(sub) + 1) : SubSeq(str, i, i + Len(sub) - 1) = sub}
    IN  IF at = {} THEN -1 ELSE (CHOOSE i \in at : \A j \in at : i <= j) - 1

RECURSIVE SetLoop(_, _)
\* for (const key in params.set), after n rounds
SetLoop(keys, n) ==
    IF n = 0
    THEN [UpdateExpression |-> <<>>, ExpressionAttributeValues |-> EmptyObject]
    ELSE LET acc == SetLoop(keys, n - 1)
             key == keys[n]
             expr == IF acc.UpdateExpression = <<>> THEN SetWord ELSE acc.UpdateExpression
             firstSet == n = 1
         IN  [UpdateExpression |->
                  expr \o (IF firstSet THEN <<" ">> ELSE <<",">>)
                       \o key \o <<" ", "=", " ", ":">> \o key,
              ExpressionAttributeValues |->
                  Assign(acc.ExpressionAttributeValues, <<":">> \o key, SetValue)]

RECURSIVE AddLoop(_, _, _)
\* for (const key in params.add), after n rounds, on the param that the
\* loop over params.set left
AddLoop(param, keys, n) ==
    IF n = 0
    THEN param
    ELSE LET acc == AddLoop(param, keys, n - 1)
             key == keys[n]
             expr == IF IndexOf(acc.UpdateExpression, AddWord) = -1
                     THEN IF acc.UpdateExpression = <<>>
                          THEN AddWord
                          ELSE acc.UpdateExpression \o <<" ">> \o AddWord
                     ELSE acc.UpdateExpression
             firstAdd == n = 1
         IN  [UpdateExpression |->
                  expr \o (IF firstAdd THEN <<" ">> ELSE <<",">>)
                       \o key \o <<" ", ":">> \o key,
              ExpressionAttributeValues |->
                  Assign(acc.ExpressionAttributeValues, <<":">> \o key, AddValue)]

\* updateItem builds its request from params.set and params.add
BuildUpdate ==
    /\ built.kind = "updateArgs"
    /\ built' = [kind |-> "updateItem", set |-> built.set, add |-> built.add,
                 param |-> AddLoop(SetLoop(built.set.keys, Len(built.set.keys)),
                                   built.add.keys, Len(built.add.keys))]
    /\ UNCHANGED <<callVars, calls, heap, nbRetry>>

\* the arguments a query or an updateItem is given
BuildInputs ==
    {[kind |-> "queryArgs", conditions |-> cs] : cs \in ConditionLists}
    \cup {[kind |-> "updateArgs", set |-> s, add |-> a] : s \in Maps, a \in Maps}
BuildInit == Constructed /\ built \in BuildInputs
BuildNext == BuildQuery \/ BuildUpdate
BuildSpec == BuildInit /\ [][BuildNext]_vars

Next ==
    \/ CallPaged
    \/ PagedRespond
    \/ CallQuery
    \/ QueryRespond
    \/ CallSingle
    \/ SingleRespond
    \/ CallDelete
    \/ DeleteRespond
    \/ RetryTimer

Spec == Init /\ [][Next]_vars

\* every backend request is answered and every armed timer fires
FairSpec == Spec /\ WF_vars(Next)

\* ------------------------------------------------------------ properties
\* retriesMax of the retry loop of the call in progress
CallBudget == Budget(ClientRetryMax(op, retryMax))
\* a call of an adapter that has a retry path went past the test of its
\* arguments
Called == op \in PagedOps \cup {"query"} \cup SingleOps /\ ArgsValid(op, args)
Settled == status \in {"resolved", "rejected"}
NoSuccessYet == pages = <<>> /\ lastData = NoData
\* the only answer with data so far ends the call: a single-shot answer the
\* adapter accepts, or a page without a next-page cursor
OneFinalSuccess ==
    IF op \in SingleOps
    THEN /\ lastData # NoData
         /\ op = "getObject" => lastData.wellFormed
         /\ op = "getItems" => lastData.shape \notin Unreadable
    ELSE Len(pages) = 1 /\ pages[1].LastEvaluatedKey = NoKey

\* C1: after k failures that all carry retryable = true, k below the retry
\* budget, attempt k+1 is outstanding on the primary client or the timer
\* of the retry loop is armed to make it on the primary client; and when
\* attempt k+1 answers with data that ends the call, the call is resolved
\* with the value of that answer after exactly k+1 backend invocations.
C1_RetryUntilSuccess ==
    (Called /\ allFlagged /\ nFail < CallBudget) =>
        /\ NoSuccessYet =>
                /\ status = "pending"
                /\ \/ pending.cli = "primary" /\ timer = NoTimer /\ invocations = nFail + 1
                   \/ pending = NoReq /\ timer = "primary" /\ invocations = nFail
                /\ fbInvocations = 0
        /\ OneFinalSuccess =>
                /\ status = "resolved"
                /\ pending = NoReq
                /\ invocations = nFail + 1
                /\ fbInvocations = 0
                /\ op \in SingleOps => (value.kind = "data" => value.v = lastData.v)
                /\ op \notin SingleOps => results.Items = pages[1].Items
C1_Witness ==
    /\ status = "resolved"
    /\ allFlagged
    /\ nFail = 2
    /\ nFail < CallBudget
    /\ invocations = 3
    /\ OneFinalSuccess

\* every attempt of a single-shot call failed with retryable = true and the
\* call was rejected
SingleExhausted ==
    /\ op \in SingleOps
    /\ status = "rejected"
    /\ error.kind = "backend"
    /\ allFlagged
    /\ lastData = NoData

\* C2, its statement about the error: a single-shot call whose attempts
\* all fail with retryable = true is rejected with the error of the last
\* attempt.
C2_RejectsWithFinalError ==
    SingleExhausted => error.seq = invocations

\* C3: when the first backend answer of a call is an error whose retryable
\* flag is false or absent, the call is rejected with that error, one
\* request was sent to the primary client, none to the fallback client, and
\* none is outstanding.
C3_NoRetryWithoutFlag ==
    (Called /\ nFail = 1 /\ NoSuccessYet /\ lastOutcome \in {"false", "absent"}) =>
        /\ status = "rejected"
        /\ error.kind = "backend"
        /\ error.seq = 1
        /\ error.flag = lastOutcome
        /\ invocations = 1
        /\ fbInvocations = 0
        /\ pending = NoReq
C3_Witness ==
    /\ op = "queryHashKey"
    /\ cliKind = "AmazonDaxClient"
    /\ status = "rejected"
    /\ nFail = 1
    /\ lastOutcome = "absent"
    /\ invocations = 1

\* C4: the Items of a resolved queryHashKey or scan call are the
\* concatenation, in fetch order, of the Items of the pages fetched.
C4_ItemsAreConcatenation ==
    (op \in PagedOps /\ status = "resolved") => results.Items = Fetched
C4_Witness ==
    /\ op \in PagedOps
    /\ status = "resolved"
    /\ limit = NoLimit
    /\ Len(pages) = 2
    /\ Len(pages[1].Items) = 2
    /\ Len(pages[2].Items) = 2
    /\ results.Items = <<1, 2, 2, 3>>

\* C5 as stated: with a ceiling, the number of accumulated items never
\* exceeds the ceiling, whatever the page sizes.
C5_Original ==
    (op \in PagedOps /\ limit # NoLimit) => Len(results.Items) <= limit

\* C6 as stated: a call with ceiling 1 whose backend page carries 2 items
\* resolves with exactly 1 item and a cursor.
C6_Original ==
    (op \in PagedOps /\ limit = 1 /\ status = "resolved"
        /\ Len(pages) >= 1 /\ Len(pages[1].Items) = 2) =>
            (Len(results.Items) = 1 /\ results.LastEvaluatedKey # NoKey)

\* C7: the step that collects a page issues the request for the next page,
\* with the cursor of the page collected and on the same client, exactly
\* when the page carried a cursor and no ceiling was given or the items
\* accumulated are still fewer than the ceiling; otherwise that step
\* resolves the call.
C7_ContinueIffCursorAndBelowCeiling ==
    [][(op \in PagedOps /\ Len(pages') = Len(pages) + 1) =>
          LET pg == pages'[Len(pages')]
          IN  IF pg.LastEvaluatedKey # NoKey
                 /\ (limit = NoLimit \/ Len(results'.Items) < limit)
              THEN /\ status' = "pending"
                   /\ pending'.cli = pending.cli
                   /\ pending'.ExclusiveStartKey = pg.LastEvaluatedKey
                   /\ invocations' + fbInvocations' = invocations + fbInvocations + 1
              ELSE /\ status' = "resolved"
                   /\ pending' = NoReq
                   /\ invocations' + fbInvocations' = invocations + fbInvocations]_vars
C7_Witness ==
    /\ op \in PagedOps
    /\ limit = 2
    /\ Len(pages) = 1
    /\ Len(results.Items) = 1
    /\ lastOutcome = "data"
    /\ status = "pending"
    /\ pending.ExclusiveStartKey = pages[1].LastEvaluatedKey
    /\ pending.ExclusiveStartKey # NoKey

\* C8 as stated, for a primary that is not a caching proxy: when a page
\* after the first has failed and no further attempt follows, the call is
\* rejected with that error.
C8_Original ==
    (op \in PagedOps /\ cliKind = "DocumentClient" /\ Len(pages) >= 1
        /\ lastOutcome \in Flags /\ pending = NoReq) =>
            (status = "rejected" /\ error.seq = invocations)

\* C9 as stated: every queryHashKey or scan call eventually settles,
\* every backend request being answered.
C9_Original == (op \in PagedOps) ~> Settled

\* C10 as stated: a query call whose first page carries a cursor and whose
\* requests all succeed has, once no request is outstanding, resolved with
\* the items of all pages merged in fetch order.
C10_Original ==
    (op = "query" /\ nFail = 0 /\ Len(pages) >= 1
        /\ pages[1].LastEvaluatedKey # NoKey /\ pending = NoReq) =>
            (status = "resolved" /\ results.Items = Fetched)

\* ------------------------------------------------------------------ C11
\* the innermost activation runs the retry loop of a proxy primary and this
\* step's error answer is the one that ends the loop
PrimaryExhausts ==
    /\ op \in PagedOps
    /\ status = "pending"
    /\ cliKind = "AmazonDaxClient"
    /\ Top(stack).cli = "primary"
    /\ Top(stack).phase = "retry"
    /\ Top(stack).i + 1 = CallBudget
    /\ nFail' = nFail + 1
\* the fallback answers a page after which no further page is needed
FallbackSucceeds ==
    /\ op \in PagedOps
    /\ status = "pending"
    /\ pending.cli = "fallback"
    /\ Len(pages') = Len(pages) + 1
    /\ ~NeedsNextPage(pages'[Len(pages')], limit, results')

\* C11: when a queryHashKey or scan request has used up its retries on an
\* AmazonDaxClient primary, the same request (same cursor, same Limit) is
\* sent to the fallback client and nothing is rejected; when the fallback
\* then answers the last page needed, the call resolves and the result
\* holds the items of that page after those collected before.
C11_FallbackAfterExhaustion ==
    [][ /\ PrimaryExhausts =>
            /\ pending' = Request("fallback", params)
            /\ status' = "pending"
            /\ error' = NoErr
            /\ fbInvocations' = fbInvocations + 1
        /\ FallbackSucceeds =>
            /\ status' = "resolved"
            /\ error' = NoErr
            /\ results'.Items = results.Items \o pages'[Len(pages')].Items
      ]_vars
C11_Witness ==
    /\ op \in PagedOps
    /\ cliKind = "AmazonDaxClient"
    /\ status = "resolved"
    /\ invocations = CallBudget + 1
    /\ nFail = CallBudget + 1
    /\ fbInvocations = 1
    /\ Len(pages) = 1
    /\ Len(pages[1].Items) = 2
    /\ results.Items = pages[1].Items

\* ------------------------------------------------------------------ C12
\* no request has been sent to this.cliFallback and none is outstanding
NoFallbackInvoked ==
    /\ fbInvocations = 0
    /\ pending.cli # "fallback"
    /\ \A k \in 1..Len(stack) : stack[k].phase # "fallback" /\ stack[k].cli # "fallback"
\* the call has stopped on an error answer flagged retryable: only the last
\* round of a retry loop stops on such an answer
RetriesExhausted == Called /\ status \notin {"idle", "pending"} /\ lastOutcome = "true"

\* C12: with a primary that is not an AmazonDaxClient the fallback client
\* is never invoked, and a call whose retries are exhausted has been
\* rejected.
C12_Original ==
    cliKind = "DocumentClient" =>
        /\ NoFallbackInvoked
        /\ RetriesExhausted => status = "rejected"

\* ------------------------------------------------------------------ C13
\* a queryHashKey or scan call was rejected after the fallback client had
\* been tried: the primary had ended its retry loop and the fallback
\* failed as well
BothClientsFailed == op \in PagedOps /\ status = "rejected" /\ fbInvocations > 0

\* C13 as worded: after the primary and the fallback have both failed, the
\* call rejects with the error of the fallback, which carries the error of
\* the primary as its context.
C13_Original ==
    BothClientsFailed => error.cli = "fallback" /\ error.ctx = "primaryError"

\* ------------------------------------------------------------------ C14
\* the scenario of the test: every request of a queryHashKey call on an
\* AmazonDaxClient primary is answered by a retryable error, first by the
\* primary and then by the fallback
AllAttemptsFailed ==
    /\ op = "queryHashKey"
    /\ BothClientsFailed
    /\ pages = <<>>
    /\ allFlagged

\* C14: when the primary has used up its retries and the fallback has used
\* up its own, queryHashKey rejects with the error of the primary's last
\* attempt (so with its message), after budget + 1 requests to the primary
\* and budget requests to the fallback, and with no answer of the fallback.
C14_RejectsWithLastPrimaryError ==
    AllAttemptsFailed =>
        /\ invocations = CallBudget + 1
        /\ fbInvocations = CallBudget
        /\ error.kind = "backend"
        /\ error.cli = "primary"
        /\ error.seq = CallBudget + 1
C14_Witness ==
    /\ AllAttemptsFailed
    /\ cliKind = "AmazonDaxClient"
    /\ nFail = 2 * CallBudget + 1
    /\ error.seq = invocations

\* ------------------------------------------------------------------ C15
\* C15 as worded: a getObject call whose successful fetch, first attempt or
\* retry, answered a response without a Buffer body is rejected with
\* FILE_NOT_FOUND.
C15_Original ==
    (op = "getObject" /\ lastData # NoData /\ ~lastData.wellFormed) =>
        status = "rejected" /\ error.kind = "FILE_NOT_FOUND"

\* ------------------------------------------------------------------ C16
\* this step receives a successful response that has no Items field
PageWithoutItems ==
    /\ op \in PagedOps \cup {"query"}
    /\ Len(pages') = Len(pages) + 1
    /\ ~pages'[Len(pages')].hasItems

\* C16: a successful response without an Items field adds no item to the
\* result of queryHashKey, scan or query and raises no error, whether it
\* answers a first attempt, a retry or a request to the fallback.
C16_MissingItemsIsEmptyPage ==
    [][ PageWithoutItems =>
            /\ results'.Items = results.Items
            /\ error' = NoErr
            /\ status' # "rejected"
      ]_vars
C16_Witness ==
    /\ op \in PagedOps
    /\ status = "resolved"
    /\ nFail = 1
    /\ Len(stack) = 0
    /\ Len(pages) = 1
    /\ ~pages[1].hasItems
    /\ results.Items = <<>>

\* ------------------------------------------------------------------ C17
\* the call was rejected by the test of its arguments
ParamRejected == status = "rejected" /\ error.kind \in ParamErrors

\* C17: a call rejected with a parameter error (BAD_PARAM, S3_TOOLS_BAD_PARAM_*,
\* Bad params) has sent no request to any backend client and has started no
\* retry; and queryHashKey without a table name or a key name is rejected
\* with BAD_PARAM.
C17_NoInvocationOnParamError ==
    /\ ParamRejected =>
        /\ error = ParamError(op)
        /\ invocations = 0
        /\ fbInvocations = 0
        /\ retries = 0
        /\ nFail = 0
        /\ pending = NoReq
        /\ pages = <<>>
    /\ (op = "queryHashKey" /\ args \in {"noTable", "noKeyName"}) =>
        /\ ParamRejected
        /\ error.kind = "BAD_PARAM"
C17_Witness ==
    /\ op = "queryHashKey"
    /\ args = "noKeyName"
    /\ ParamRejected
    /\ error.kind = "BAD_PARAM"
    /\ invocations = 0

\* ------------------------------------------------------------------ C18
\* C18 as worded, taken on a primary that is not a proxy (so that no
\* retry of the fallback is counted): over all the pages of one
\* queryHashKey or scan call the retries made never exceed the budget, and
\* when the budget is used up (the last answer is a retryable error and no
\* further attempt is outstanding or scheduled) the call is rejected with
\* that last error.
C18_Original ==
    (op \in PagedOps /\ cliKind = "DocumentClient") =>
        /\ retries <= CallBudget
        /\ (lastOutcome = "true" /\ pending = NoReq /\ timer = NoTimer) =>
                (status = "rejected" /\ error.seq = invocations)

\* ------------------------------------------------------------------ C19
\* a single-shot call was rejected after every attempt failed with the
\* retryable flag set: its client has used its whole budget
BudgetUsedUp ==
    /\ op \in SingleOps
    /\ status = "rejected"
    /\ error.kind = "backend"
    /\ allFlagged

\* C19 as worded: every client retries as many times as the retryMax it
\* was constructed with, 5 when no opt.retryMax was given.
C19_Original == BudgetUsedUp => retries = retryMax

\* ------------------------------------------------------------------ C20
\* C20 as worded: when queryHashKey or scan resolves, the LastEvaluatedKey
\* of the result is the cursor of the last page fetched, and absent when
\* that page carried none.
C20_Original ==
    (op \in PagedOps /\ status = "resolved") =>
        results.LastEvaluatedKey = pages[Len(pages)].LastEvaluatedKey

\* ------------------------------------------------------------------ C21
\* the first request of a call is outstanding and nothing was answered yet
FirstRequestOutstanding ==
    /\ status = "pending"
    /\ invocations = 1
    /\ fbInvocations = 0
    /\ nFail = 0
    /\ pages = <<>>

\* C21 as worded: in both DynamoTools, the first request of a queryHashKey
\* call made with an exclusiveStartKey carries it as ExclusiveStartKey.
C21_Original ==
    (op = "queryHashKey" /\ startKey # NoKey /\ FirstRequestOutstanding) =>
        pending.ExclusiveStartKey = startKey

\* ------------------------------------------------------------------ C22
\* C22 as worded: after a first failure flagged retryable, deleteItem has a
\* retry outstanding on the primary instead of having surfaced the error.
C22_Original ==
    (op = "deleteItem" /\ nFail = 1 /\ lastOutcome = "true") =>
        /\ status = "pending"
        /\ pending.cli = "primary"
        /\ invocations = 2

\* ------------------------------------------------------------------ C23
\* requests sent to the two clients and answers received, in one call
Issued == invocations + fbInvocations
Answered == nFail + Len(pages) + (IF lastData # NoData THEN 1 ELSE 0)

ResultsOf(c) == heap[calls[c].obj].res

\* C24: two queryHashKey / scan calls running side by side on one instance,
\* each with params and results objects of its own, do not interfere:
\* every request of a call names the table of that call, a call resolves
\* with exactly the items of the pages that the backend answered its own
\* requests with, in the order answered, and a step of one call writes
\* neither the state nor the objects of the other.  (Which pages those
\* are is the backend's business: the backend of the test-suite answers
\* by a counter that all calls share.)
C24_NoInterference ==
    /\ [](\A c \in Callers :
            /\ calls[c].pending # NoReq => calls[c].reqTable = calls[c].table
            /\ calls[c].status = "resolved" => ResultsOf(c).Items = calls[c].fetched)
    /\ [][ \A c, d \in Callers :
              (c # d /\ calls'[c] # calls[c]) =>
                  /\ calls'[d] = calls[d]
                  /\ calls[d].status # "idle" => heap'[calls[d].obj] = heap[calls[d].obj]
       ]_vars
C24_Witness ==
    /\ \A c \in Callers : calls[c].op = "queryHashKey"
    /\ \A c \in Callers : calls[c].table = "myTableWithPagination"
    /\ calls[1].status = "pending"
    /\ Len(calls[1].stack) = 2
    /\ Top(calls[1].stack).phase = "retry"
    /\ calls[1].pending # NoReq
    /\ calls[1].pending.ExclusiveStartKey = MockKey
    /\ ResultsOf(1).Items = <<1>>
    /\ calls[2].status = "resolved"
    /\ ResultsOf(2).Items = [k \in 1..MaxTablePages - 1 |-> k + 1]

\* ------------------------------------------------------------------ C25
\* C25, for the adapters of DynamoTools that build a context object
\* (queryHashKey, scan, query, putItem, getItem, getItems, updateItem):
\* every error that one of them rejects a call with carries a context blob.
C25_DynamoErrorsCarryContext ==
    (status = "rejected" /\ op \in DynamoOps) => error.ctx # "none"

\* ------------------------------------------------------------------ C26
\* the call of caller c without what tells the two callers apart
Observable(c) == [calls[c] EXCEPT !.logged = 0, !.obj = 0]

\* C26: the logger is called only in the step that sends a request to the
\* fallback after the primary, an AmazonDaxClient, has failed its retries,
\* once per such step; and the call made with a logger and the same call
\* made without one, given the same backend answers, have at every moment
\* the same request outstanding, the same accumulated result, the same
\* status and the same error.
C26_LoggerChangesNothing ==
    /\ [](/\ Observable(1) = Observable(2)
          /\ calls[1].status # "idle" => heap[calls[1].obj] = heap[calls[2].obj]
          /\ calls[2].logged = 0)
    /\ [][ calls'[1].logged # calls[1].logged =>
              /\ calls'[1].logged = calls[1].logged + 1
              /\ cliKind = "AmazonDaxClient"
              /\ calls'[1].pending.cli = "fallback"
              /\ Top(calls'[1].stack).phase = "fallback"
              /\ Top(calls'[1].stack).cli = "primary"
       ]_vars
C26_Witness ==
    /\ calls[1].logged = 1
    /\ calls[2].logged = 0
    /\ \A c \in Callers :
        /\ calls[c].status = "resolved"
        /\ calls[c].op = "queryHashKey"
        /\ calls[c].table = "myTableWithPagination"
        /\ calls[c].fetched = [k \in 1..MaxTablePages |-> k]
        /\ ResultsOf(c).Items = calls[c].fetched

\* ------------------------------------------------------------------ C27
\* C27 as stated: whatever data answer getItems gets, to its first attempt
\* or to a retry, it resolves: with the array found under Responses[table],
\* and with an empty sequence when that shape is missing or malformed; a
\* data answer never makes it fail.
C27_Original ==
    (op = "getItems" /\ lastData # NoData) =>
        /\ status = "resolved"
        /\ error = NoErr
        /\ lastData.shape = "ok" => value = [kind |-> "data", v |-> lastData.v]
        /\ lastData.shape # "ok" => value = [kind |-> "empty", v |-> 0]

\* ------------------------------------------------------------------ C28
\* the latest answer is an error without retryable = true given to an
\* attempt of the primary's retry loop: an earlier attempt had failed, no
\* attempt has succeeded, and the fallback has answered nothing
LoopAttemptFailedForGood ==
    /\ Called
    /\ NoSuccessYet
    /\ nFail >= 2
    /\ lastOutcome \in {"false", "absent"}
    /\ fbInvocations = 0 \/ (fbInvocations = 1 /\ pending.cli = "fallback")

\* C28 as worded: when an attempt of the retry loop fails with an error
\* whose retryable flag is absent or false, no further request is made and
\* the call is rejected with that error.
C28_Original ==
    LoopAttemptFailedForGood =>
        /\ status = "rejected"
        /\ pending = NoReq
        /\ fbInvocations = 0
        /\ error.flag = lastOutcome
        /\ error.seq = invocations

\* ------------------------------------------------------------------ C29
\* C29 as worded: within one queryHashKey or scan call the fallback's retry
\* sequence is run at most once for a given page cursor.
C29_Original ==
    op \in PagedOps => \A k \in DOMAIN fbRuns : fbRuns[k] <= 1

\* ------------------------------------------------------------------ C30
\* the first request to the fallback client has just been issued: every
\* error answered so far came from the primary
FirstFallbackRequestOutstanding ==
    /\ op \in PagedOps
    /\ fbInvocations = 1
    /\ pending.cli = "fallback"
    /\ lastOutcome # "data"

\* C30 as worded: a request goes to the fallback client only after retryable
\* errors of the primary; no error of the primary without retryable = true,
\* on the first page or a later one, leads to a request to the fallback.
C30_Original ==
    FirstFallbackRequestOutstanding => allFlagged

\* ------------------------------------------------------------------ C31
\* C31: within one queryHashKey or scan call of the limit-aware
\* DynamoTools, the request that follows a failed attempt, sent at once or
\* by the timer of the retry loop, carries the cursor and the limit of the
\* attempt that failed, and the request for the next page carries the
\* limit of the request before it and the cursor that the page just
\* fetched returned.
C31_RequestsDifferInCursorOnly ==
    [][(op' \in PagedOps /\ impl' = "limitAware" /\ sent # NoReq /\ Issued' # Issued) =>
          /\ pending'.Limit = sent.Limit
          /\ lastOutcome' # "data" =>
                pending'.ExclusiveStartKey = sent.ExclusiveStartKey
          /\ lastOutcome' = "data" =>
                pending'.ExclusiveStartKey = Top(pages').LastEvaluatedKey]_vars
\* a page after the first, asked with a limit, failed and is asked again
\* by the timer of the retry loop
C31_Witness ==
    /\ op \in PagedOps
    /\ impl = "limitAware"
    /\ Len(pages) >= 1
    /\ lastOutcome = "true"
    /\ pending # NoReq
    /\ Top(stack).i >= 1
    /\ pending.ExclusiveStartKey = Top(pages).LastEvaluatedKey
    /\ pending.Limit = MaxLimit

\* ------------------------------------------------------------------ C32
\* a call of the limit-aware DynamoTools resolved after asking the fallback
ResolvedAfterFallback ==
    /\ op \in PagedOps
    /\ impl = "limitAware"
    /\ status = "resolved"
    /\ fbInvocations > 0

\* C32: when a queryHashKey or scan call resolves after substituting the
\* fallback, the pages it fetched form one chain: the first was asked with
\* the cursor of the call, each later one with the cursor the page before
\* it returned (none skipped, none fetched twice), the pages of the primary
\* all come before those of the fallback, and Items is the concatenation
\* of their items, each page once.
C32_PagesOnceAcrossClients ==
    ResolvedAfterFallback =>
        /\ results.Items = Fetched
        /\ pages # <<>>
        /\ pages[1].cursor = PassedStartKey(impl, op, startKey)
        /\ \A k \in 2..Len(pages) :
              /\ pages[k].cursor = pages[k - 1].LastEvaluatedKey
              /\ pages[k - 1].cli = "fallback" => pages[k].cli = "fallback"
        /\ Top(pages).cli = "fallback"
\* a page from the primary and, after the primary failed on the next
\* cursor, a page from the fallback
C32_Witness ==
    /\ ResolvedAfterFallback
    /\ Len(pages) = 2
    /\ pages[1].cli = "primary"
    /\ pages[2].cli = "fallback"
    /\ Len(pages[1].Items) > 0
    /\ Len(pages[2].Items) > 0

\* ------------------------------------------------------------------ C33
\* C33: once a queryHashKey or scan call has sent a request to the fallback
\* client, it sends no further request to the primary.
C33_NoReturnToPrimary ==
    [][(op \in PagedOps /\ fbInvocations > 0) => invocations' = invocations]_vars
\* the fallback served a page with a cursor and is asked for the next page
C33_Witness ==
    /\ op \in PagedOps
    /\ Len(pages) >= 1
    /\ Top(pages).cli = "fallback"
    /\ lastOutcome = "data"
    /\ pending.cli = "fallback"
    /\ pending.ExclusiveStartKey = Top(pages).LastEvaluatedKey

\* ------------------------------------------------------------------ C34
\* C34: once the promise of a queryHashKey, scan or query call is resolved
\* or rejected, no request of the call is outstanding, no timer of the
\* retry loop is armed and no activation of it is left waiting, and from
\* then on the call sends no request to either client and its result
\* object does not change.
C34_QuietAfterSettling ==
    /\ []((op \in PagedOps \cup {"query"} /\ Settled) =>
              (pending = NoReq /\ timer = NoTimer /\ stack = <<>>))
    /\ [][(op \in PagedOps \cup {"query"} /\ Settled) =>
              /\ invocations' = invocations
              /\ fbInvocations' = fbInvocations
              /\ results' = results]_vars
\* a call that went through a failure and two pages has resolved
C34_Witness ==
    /\ op \in PagedOps
    /\ status = "resolved"
    /\ Len(pages) = 2
    /\ nFail > 0
    /\ Len(results.Items) > 0

\* ------------------------------------------------------------------ C35
\* C35 as worded: a queryHashKey or scan call leaves the params object that
\* the caller supplied as it was (here: empty) once the call has settled.
C35_Original ==
    (op \in PagedOps /\ args = "okParams" /\ Settled) => params = EmptyParams

\* ------------------------------------------------------------------ C36
RECURSIVE BindingsNeeded(_)
\* two bindings for a range condition, one for a scalar
BindingsNeeded(conds) ==
    IF conds = <<>> THEN 0
    ELSE BindingsNeeded(Below(conds)) + (IF Top(conds).value.isArray THEN 2 ELSE 1)

\* C36 as worded: the request built by query binds the values of all its
\* conditions, two for a range condition and one for a scalar, none
\* overwritten by another condition, and names every condition's key.
C36_Original ==
    built.kind = "query" =>
        /\ Cardinality(DOMAIN built.params.keyAttribute) = BindingsNeeded(built.conditions)
        /\ Cardinality(DOMAIN built.params.keyName) = Len(built.conditions)

\* ------------------------------------------------------------------ C37
RECURSIVE Listed(_, _)
\* the keys ks, each as "key<link>:key", comma separated
Listed(ks, link) ==
    IF ks = <<>> THEN <<>>
    ELSE (IF Len(ks) = 1 THEN <<>> ELSE Listed(Below(ks), link) \o <<",">>)
         \o Top(ks) \o link \o <<":">> \o Top(ks)
\* a clause for the keys ks, introduced by word; none for no key
Clause(word, ks, link) == IF ks = <<>> THEN <<>> ELSE word \o <<" ">> \o Listed(ks, link)
\* a 'set' clause when params.set has keys, then an 'add' clause when
\* params.add has keys, a space between the two
ClaimedUpdateExpression(set, add) ==
    Clause(SetWord, set.keys, <<" ", "=", " ">>)
    \o (IF set.keys # <<>> /\ add.keys # <<>> THEN <<" ">> ELSE <<>>)
    \o Clause(AddWord, add.keys, <<" ">>)

\* C37 as worded: for all key names, the UpdateExpression built by
\* updateItem is a 'set' clause listing exactly the keys of params.set when
\* that map has keys, followed by an 'add' clause introduced by the keyword
\* 'add' listing exactly the keys of params.add when that map has keys, and
\* nothing for an absent or empty map.
C37_Original ==
    built.kind = "updateItem" =>
        built.param.UpdateExpression = ClaimedUpdateExpression(built.set, built.add)

====
